---- MODULE Spec2Model ----
(***************************************************************************)
(* CRT-DASH: two Streamlit dashboards (crtdash.py, crtdash1.py) that poll  *)
(* a ThingSpeak feed, normalise it with pandas and render it in a loop.    *)
(*                                                                         *)
(* Encoding of values                                                      *)
(*   JSON scalars of a feed entry are strings; the JSON literal null is    *)
(*   the token Null.  A feed entry is a function whose DOMAIN is the set   *)
(*   of keys the JSON object carries (an absent key is not in the DOMAIN). *)
(*   A pandas cell is [na, v]: na = TRUE is NaN/NaT, otherwise v is the    *)
(*   number in tenths (12.3 is 123) or the timestamp in hours since        *)
(*   2024-01-01T00:00:00Z.                                                 *)
(***************************************************************************)
EXTENDS Integers, Sequences, FiniteSets, TLC

VARIABLES script, refresh_rate, pc, resp, data, df, view, slept, exc

vars == <<script, refresh_rate, pc, resp, data, df, view, slept, exc>>

(***************************************************************************)
(* Bounds of the model.                                                    *)
(***************************************************************************)
\* longest batch of the normaliser's specification
MaxLen == 3
\* longest mixed batch a poll of the loop returns
LoopLen == 2
\* longest uniform batch a poll of the loop returns (more than ten rows)
MaxRows == 11

(***************************************************************************)
(* Program constants.                                                      *)
(***************************************************************************)
Scripts == {"crtdash", "crtdash1"}
RefreshChoices == {5, 10, 30, 60}
numeric_fields == <<"field1", "field2", "field3", "field4", "field5", "field6">>
NumericSet == {numeric_fields[i] : i \in 1..Len(numeric_fields)}
\* df.tail(10)
TailSize == 10
\* range(9, -1, -1) of crtdash1.py
FixedPoints == 10
HttpOk == 200

Null == "<null>"
NaN == [na |-> TRUE, v |-> 0]
Num(x) == [na |-> FALSE, v |-> x]

(***************************************************************************)
(* Python / pandas helpers.                                                *)
(***************************************************************************)
Range(n) == [i \in 1..n |-> i - 1]

Reversed(s) == [i \in 1..Len(s) |-> s[Len(s) + 1 - i]]

DfTail(s, n) == IF Len(s) <= n THEN s ELSE SubSeq(s, Len(s) - n + 1, Len(s))

\* a coercion that fills what it cannot parse with zero
ToNumericFillZero(val) ==
    CASE val = "12.3" -> Num(123)
      [] val = "0"    -> Num(0)
      [] val = "5"    -> Num(50)
      [] val = "1.5"  -> Num(15)
      [] OTHER        -> Num(0)

\* pd.to_numeric(value, errors='coerce') on the values the feed carries
ToNumeric(val) ==
    CASE val = "12.3" -> Num(123)
      [] val = "0"    -> Num(0)
      [] val = "5"    -> Num(50)
      [] val = "1.5"  -> Num(15)
      [] OTHER        -> NaN

\* a conversion that leaves unparseable text in place (errors='ignore')
ToDatetimeIgnore(val) ==
    CASE val = "2024-01-01T00:00:00Z" -> Num(0)
      [] val = "2024-01-01T01:00:00Z" -> Num(1)
      [] val = Null                   -> NaN
      [] OTHER                        -> Num(0)

\* pd.to_datetime(value, errors='coerce')
ToDatetime(val) ==
    CASE val = "2024-01-01T00:00:00Z" -> Num(0)
      [] val = "2024-01-01T01:00:00Z" -> Num(1)
      [] OTHER                        -> NaN

(***************************************************************************)
(* JSON payloads.  The value of the feeds key is [isnull, items].          *)
(***************************************************************************)
JList(items) == [isnull |-> FALSE, items |-> items]
JNullValue == [isnull |-> TRUE, items |-> <<>>]

\* a test for None alone: the empty list passes
IsNotNone(val) == ~val.isnull

\* Python truth value of a JSON value: None and [] are falsy
Truthy(val) == ~val.isnull /\ Len(val.items) > 0

\* the dict {}
EmptyPayload == [k \in {} |-> JNullValue]
Payload(feedsValue) == [k \in {"feeds"} |-> feedsValue]

\* dict.get(key, default)
Get(dict, key, default) == IF key \in DOMAIN dict THEN dict[key] ELSE default

(***************************************************************************)
(* pandas DataFrame: [columns, rows]; a row is [index, cells], index being *)
(* the label of the RangeIndex that pd.DataFrame(feeds) gives the entry.   *)
(***************************************************************************)
\* pd.DataFrame()
EmptyFrame == [columns |-> {}, rows |-> <<>>]

\* DataFrame.empty
IsEmpty(frame) == frame.columns = {} \/ Len(frame.rows) = 0

\* the columns of pd.DataFrame(feeds): the union of the entries' keys
Columns(feeds) == UNION {DOMAIN feeds[i] : i \in 1..Len(feeds)}

\* the cell of a column in an entry before coercion (an absent key is NaN)
RawCell(entry, col) == IF col \in DOMAIN entry THEN entry[col] ELSE Null

\* df['created_at'] = pd.to_datetime(..); df[field] = pd.to_numeric(..)
Coerce(col, val) ==
    IF col = "created_at" THEN ToDatetime(val) ELSE ToNumeric(val)

\* pd.DataFrame(feeds) with created_at and the numeric columns coerced
CoercedFrame(feeds) ==
    [columns |-> Columns(feeds),
     rows    |-> [i \in 1..Len(feeds) |->
                    [index |-> i - 1,
                     cells |-> [c \in Columns(feeds) |->
                                  Coerce(c, RawCell(feeds[i], c))]]]]

\* df['created_at'].isnull().all()
AllNull(frame, col) ==
    \A i \in 1..Len(frame.rows) : frame.rows[i].cells[col].na

RECURSIVE SelectRows(_, _, _)
\* the rows of a sequence that satisfy keep, in their order
SelectRows(rows, subset, i) ==
    IF i > Len(rows) THEN <<>>
    ELSE LET rest == SelectRows(rows, subset, i + 1)
         IN  IF \E c \in subset : ~rows[i].cells[c].na
             THEN <<rows[i]>> \o rest
             ELSE rest

RECURSIVE SelectRowsAny(_, _, _)
\* how='any': a row with one NaN in subset is dropped
SelectRowsAny(rows, subset, i) ==
    IF i > Len(rows) THEN <<>>
    ELSE LET rest == SelectRowsAny(rows, subset, i + 1)
         IN  IF \A c \in subset : ~rows[i].cells[c].na
             THEN <<rows[i]>> \o rest
             ELSE rest

DropNaAny(frame, subset) ==
    [columns |-> frame.columns, rows |-> SelectRowsAny(frame.rows, subset, 1)]

\* a filter that hands the kept rows back newest first
DropNaReversed(frame, subset) ==
    [columns |-> frame.columns,
     rows    |-> Reversed(SelectRows(frame.rows, subset, 1))]

\* the labels of subset that DataFrame.dropna does not find (it raises KeyError)
MissingLabels(frame, subset) == subset \ frame.columns

\* df.dropna(subset=subset, how='all'), all labels of subset being columns
DropNa(frame, subset) ==
    [columns |-> frame.columns, rows |-> SelectRows(frame.rows, subset, 1)]

MsgNoFeeds == "No data available in feeds."
MsgAllInvalid == "All 'created_at' values are invalid. Check the API response."
MsgNoCreatedAt == "Error: 'created_at' column not found in the data."
MsgFieldMissing(field) == "Field '" \o field \o "' is missing in the data."
MsgAllEmpty == "All numeric fields are empty. No data to display."

Returned(frame, signals) == [raised |-> "none", ret |-> frame, signals |-> signals]
Raised(exception, signals) ==
    [raised |-> exception, ret |-> EmptyFrame, signals |-> signals]

\* the warnings of the loop over numeric_fields
FieldWarnings(frame) ==
    {MsgFieldMissing(f) : f \in NumericSet \ frame.columns}

process_data(payload) ==
    LET feeds == Get(payload, "feeds", JList(<<>>))
    IN  IF ~Truthy(feeds) THEN Returned(EmptyFrame, {MsgNoFeeds})
        ELSE LET frame == CoercedFrame(feeds.items)
             IN  IF "created_at" \notin frame.columns
                 THEN Returned(EmptyFrame, {MsgNoCreatedAt})
                 ELSE IF AllNull(frame, "created_at")
                 THEN Returned(EmptyFrame, {MsgAllInvalid})
                 ELSE IF MissingLabels(frame, NumericSet) # {}
                 THEN Raised("KeyError", FieldWarnings(frame))
                 ELSE LET kept == DropNa(frame, NumericSet)
                      IN  Returned(kept,
                                   FieldWarnings(frame) \cup
                                   (IF IsEmpty(kept) THEN {MsgAllEmpty} ELSE {}))

(***************************************************************************)
(* fetch_data.  A reply of requests.get is [kind, status, body]: kind is   *)
(* "error" when the request raises (no response at all); body is           *)
(* [json, obj] with json = "invalid" (response.json() raises), "scalar"    *)
(* (a JSON value that is no object, such as ThingSpeak's -1) or "object".  *)
(***************************************************************************)
MsgNoFeedsInResponse == "No feeds available in the API response."
MsgHttpFailed == "Failed to fetch data. HTTP Status Code"

FetchReturned(payload, signals) ==
    [raised |-> "none", ret |-> payload, signals |-> signals]
FetchRaised(exception) ==
    [raised |-> exception, ret |-> EmptyPayload, signals |-> {}]

fetch_data(reply) ==
    IF reply.kind = "error" THEN FetchRaised("ConnectionError")
    ELSE IF reply.status = HttpOk
    THEN IF reply.body.json = "invalid" THEN FetchRaised("JSONDecodeError")
         ELSE IF reply.body.json = "scalar" THEN FetchRaised("AttributeError")
         ELSE IF Truthy(Get(reply.body.obj, "feeds", JNullValue))
              THEN FetchReturned(reply.body.obj, {})
              ELSE FetchReturned(EmptyPayload, {MsgNoFeedsInResponse})
    ELSE FetchReturned(EmptyPayload, {MsgHttpFailed})

(***************************************************************************)
(* The rendering steps of the two scripts.                                 *)
(***************************************************************************)
NoSummary == [kind |-> "none"]
NoCharts == [kind |-> "none"]
\* placeholder.container(): the placeholder's content is replaced
ClearedView == [signals |-> {}, summary |-> NoSummary, charts |-> NoCharts,
                updated |-> FALSE]

MsgNoData == "No data available."
MsgNoHistory == "No historical data available."
MsgGraphError == "Error displaying the graphs"

\* the non-NaN values of a column, as a sequence of tenths
RECURSIVE ColumnValues(_, _, _)
ColumnValues(rows, col, i) ==
    IF i > Len(rows) THEN <<>>
    ELSE (IF rows[i].cells[col].na THEN <<>> ELSE <<rows[i].cells[col].v>>)
         \o ColumnValues(rows, col, i + 1)

RECURSIVE SeqSum(_)
SeqSum(s) == IF s = <<>> THEN 0 ELSE Head(s) + SeqSum(Tail(s))

\* Series.sum() skips NaN; the sum of no value is 0
ColumnSum(frame, col) == Num(SeqSum(ColumnValues(frame.rows, col, 1)))

\* Series.max() skips NaN; the maximum of no value is NaN
ColumnMax(frame, col) ==
    LET vals == ColumnValues(frame.rows, col, 1)
        set  == {vals[i] : i \in 1..Len(vals)}
    IN  IF set = {} THEN NaN ELSE Num(CHOOSE m \in set : \A x \in set : x <= m)

ColumnMin(frame, col) ==
    LET vals == ColumnValues(frame.rows, col, 1)
        set  == {vals[i] : i \in 1..Len(vals)}
    IN  IF set = {} THEN NaN ELSE Num(CHOOSE m \in set : \A x \in set : m <= x)

\* crtdash.py: the four metrics
KeyPerformanceIndicators(frame) ==
    [kind |-> "kpi", total_items |-> Len(frame.rows),
     total_price |-> ColumnSum(frame, "field1"),
     max_price |-> ColumnMax(frame, "field1"),
     min_price |-> ColumnMin(frame, "field1")]

\* crtdash1.py: latest_reading = df.iloc[-1]
LatestReadings(frame) ==
    [kind |-> "latest", latest_reading |-> frame.rows[Len(frame.rows)]]

\* the simulated x-axis, in hours before datetime.now()
TimeIntervals(name, n) ==
    IF name = "crtdash" THEN Reversed(Range(n)) ELSE Reversed(Range(FixedPoints))

\* the line charts drawn before set_index('real_time')[field] raises KeyError
ChartsDrawn(frame) ==
    CHOOSE k \in 0..Len(numeric_fields) :
        /\ \A j \in 1..k : numeric_fields[j] \in frame.columns
        /\ k < Len(numeric_fields) => numeric_fields[k + 1] \notin frame.columns

\* the try block of the charts section, for a non-empty df
BuildCharts(name, frame) ==
    LET latest == [columns |-> frame.columns, rows |-> DfTail(frame.rows, TailSize)]
        axis   == TimeIntervals(name, Len(latest.rows))
    IN  IF Len(axis) # Len(latest.rows)
        THEN [kind |-> "error", drawn |-> 0, real_time |-> <<>>, frame |-> latest,
              raised |-> "ValueError"]
        ELSE IF ChartsDrawn(latest) < Len(numeric_fields)
        THEN [kind |-> "error", drawn |-> ChartsDrawn(latest), real_time |-> axis,
              frame |-> latest, raised |-> "KeyError"]
        ELSE [kind |-> "charts", drawn |-> ChartsDrawn(latest), real_time |-> axis,
              frame |-> latest, raised |-> "none"]

\* df['real_time'] = time_intervals, the lengths being equal
WithRealTime(frame, axis) ==
    [columns |-> frame.columns \cup {"real_time"},
     rows    |-> [i \in 1..Len(frame.rows) |->
                    [index |-> frame.rows[i].index,
                     cells |-> [c \in frame.columns \cup {"real_time"} |->
                                  IF c = "real_time" THEN Num(axis[i])
                                  ELSE frame.rows[i].cells[c]]]]]

(***************************************************************************)
(* What the remote service may answer.                                     *)
(***************************************************************************)
Entry(keys, val) == [k \in keys |-> val[k]]

ValidStamp == "2024-01-01T00:00:00Z"

\* the created_at part of an entry: absent, parseable, unparseable, null
StampParts ==
    {Entry({}, [k \in {} |-> Null])} \cup
    {[k \in {"created_at"} |-> s] : s \in {ValidStamp, "not-a-date", Null}}

\* field1 = "12.3", field2 = null, field3..field6 absent
ExampleChannels == ("field1" :> "12.3") @@ ("field2" :> Null)
\* every channel a number
FullChannels ==
    [f \in NumericSet |->
        IF f = "field1" THEN "12.3" ELSE IF f = "field2" THEN "5" ELSE "1.5"]
\* every channel present in the schema, none parseable
BlankChannels ==
    [f \in NumericSet |->
        IF f \in {"field1", "field5"} THEN ""
        ELSE IF f = "field3" THEN "abc" ELSE Null]
\* the only number is a zero
ZeroChannels ==
    [f \in NumericSet |->
        IF f = "field1" THEN "0"
        ELSE IF f = "field3" THEN "abc" ELSE IF f = "field4" THEN "" ELSE Null]
\* no channel key at all
NoChannels == Entry({}, [k \in {} |-> Null])
ChannelParts ==
    {ExampleChannels, FullChannels, BlankChannels, ZeroChannels, NoChannels}

Merge(f, g) == [k \in DOMAIN f \cup DOMAIN g |-> IF k \in DOMAIN f THEN f[k] ELSE g[k]]

NormPool == {Merge(s, c) : s \in StampParts, c \in ChannelParts}

FullEntry == Merge([k \in {"created_at"} |-> ValidStamp], FullChannels)

LoopPool ==
    {FullEntry,
     Merge([k \in {"created_at"} |-> ValidStamp], ExampleChannels),
     Merge([k \in {"created_at"} |-> ValidStamp], BlankChannels),
     Merge([k \in {"created_at"} |-> "not-a-date"], FullChannels)}

BoundedSeq(S, n) == UNION {[1..k -> S] : k \in 0..n}

\* results=100 returns the newest entries: uniform batches around ten rows
LongBatches == {[i \in 1..k |-> FullEntry] : k \in (TailSize - 1)..MaxRows}

LoopBatches == BoundedSeq(LoopPool, LoopLen) \cup LongBatches

NoBody == [json |-> "none", obj |-> EmptyPayload]
NoReply == [kind |-> "none", status |-> 0, body |-> NoBody]
TransportError == [kind |-> "error", status |-> 0, body |-> NoBody]
Http(status, body) == [kind |-> "http", status |-> status, body |-> body]
JsonObject(obj) == [json |-> "object", obj |-> obj]

OkBodies ==
    {[json |-> "invalid", obj |-> EmptyPayload],
     [json |-> "scalar", obj |-> EmptyPayload],
     JsonObject(EmptyPayload), JsonObject(Payload(JNullValue))} \cup
    {JsonObject(Payload(JList(b))) : b \in LoopBatches}

Replies ==
    {TransportError} \cup
    {Http(st, b) : st \in {503, 404},
                   b \in {NoBody, JsonObject(Payload(JList(<<FullEntry>>)))}} \cup
    {Http(HttpOk, b) : b \in OkBodies}

(***************************************************************************)
(* The polling loop: while True (crtdash.py 110-170, crtdash1.py 66-126).  *)
(***************************************************************************)
Init ==
    /\ script \in Scripts
    /\ refresh_rate \in RefreshChoices
    /\ pc = "fetch"
    /\ resp = NoReply
    /\ data = EmptyPayload
    /\ df = EmptyFrame
    /\ view = ClearedView
    /\ slept = 0
    /\ exc = "none"

\* with placeholder.container(): data = fetch_data()
Fetch ==
    /\ pc = "fetch"
    /\ \E reply \in Replies :
         LET r == fetch_data(reply)
         IN  /\ resp' = reply
             /\ view' = [ClearedView EXCEPT !.signals = r.signals]
             /\ IF r.raised # "none"
                THEN pc' = "raised" /\ exc' = r.raised /\ data' = data
                ELSE pc' = "process" /\ exc' = exc /\ data' = r.ret
    /\ UNCHANGED <<script, refresh_rate, df, slept>>

\* a loop that keeps the last table when the new one is empty
ProcessKeepsLast ==
    /\ pc = "process"
    /\ LET r == process_data(data)
       IN  /\ view' = [view EXCEPT !.signals = @ \cup r.signals]
           /\ IF r.raised # "none"
              THEN pc' = "raised" /\ exc' = r.raised /\ df' = df
              ELSE /\ pc' = "summary" /\ exc' = exc
                   /\ df' = IF IsEmpty(r.ret) THEN df ELSE r.ret
    /\ UNCHANGED <<script, refresh_rate, resp, data, slept>>

\* df = process_data(data)
Process ==
    /\ pc = "process"
    /\ LET r == process_data(data)
       IN  /\ view' = [view EXCEPT !.signals = @ \cup r.signals]
           /\ IF r.raised # "none"
              THEN pc' = "raised" /\ exc' = r.raised /\ df' = df
              ELSE pc' = "summary" /\ exc' = exc /\ df' = r.ret
    /\ UNCHANGED <<script, refresh_rate, resp, data, slept>>

\* "Key Performance Indicators" (crtdash.py) / "Latest Readings" (crtdash1.py)
Summary ==
    /\ pc = "summary"
    /\ IF IsEmpty(df)
       THEN /\ view' = [view EXCEPT !.signals = @ \cup {MsgNoData},
                                    !.summary = [kind |-> "nodata"]]
            /\ pc' = "charts" /\ exc' = exc
       ELSE IF script = "crtdash"
       THEN IF "field1" \in df.columns
            THEN /\ view' = [view EXCEPT !.summary = KeyPerformanceIndicators(df)]
                 /\ pc' = "charts" /\ exc' = exc
            ELSE /\ view' = view
                 /\ pc' = "raised" /\ exc' = "KeyError"
       ELSE /\ view' = [view EXCEPT !.summary = LatestReadings(df)]
            /\ pc' = "charts" /\ exc' = exc
    /\ UNCHANGED <<script, refresh_rate, resp, data, df, slept>>

\* "Field Visualizations" / "Historical Data", then "Last updated"
Charts ==
    /\ pc = "charts"
    /\ IF IsEmpty(df)
       THEN /\ view' = [view EXCEPT !.signals = @ \cup {MsgNoHistory},
                                    !.charts = [kind |-> "nodata"],
                                    !.updated = TRUE]
            /\ df' = df
       ELSE LET c == BuildCharts(script, df)
            IN  /\ view' = [view EXCEPT
                              !.signals = IF c.kind = "error"
                                          THEN @ \cup {MsgGraphError} ELSE @,
                              !.charts = c,
                              !.updated = TRUE]
                /\ df' = IF script = "crtdash"
                         THEN IF c.raised = "ValueError" THEN c.frame
                              ELSE WithRealTime(c.frame, c.real_time)
                         ELSE df
    /\ pc' = "sleep"
    /\ UNCHANGED <<script, refresh_rate, resp, data, slept, exc>>

\* time.sleep(refresh_rate)
Sleep ==
    /\ pc = "sleep"
    /\ slept' = refresh_rate
    /\ pc' = "fetch"
    /\ UNCHANGED <<script, refresh_rate, resp, data, df, view, exc>>

Next == Fetch \/ Process \/ Summary \/ Charts \/ Sleep

Spec == Init /\ [][Next]_vars

(***************************************************************************)
(* The normaliser on its own: process_data applied to every batch of at    *)
(* most MaxLen entries of NormPool, as line 114 applies it to the payload  *)
(* that fetch_data returned for the batch.                                 *)
(***************************************************************************)
InitNorm ==
    /\ script = "crtdash"
    /\ refresh_rate = 5
    /\ pc = "process"
    /\ \E b \in BoundedSeq(NormPool, MaxLen) :
         /\ resp = Http(HttpOk, JsonObject(Payload(JList(b))))
         /\ data = fetch_data(resp).ret
         /\ view = [ClearedView EXCEPT !.signals = fetch_data(resp).signals]
    /\ df = EmptyFrame
    /\ slept = 0
    /\ exc = "none"

NextNorm == Process

SpecNorm == InitNorm /\ [][NextNorm]_vars

(***************************************************************************)
(* Vocabulary of the properties, stated on the fetched reply itself.       *)
(***************************************************************************)
\* the texts of the feed that are numbers, and those that are timestamps
NumericText == {"12.3", "0", "5", "1.5"}
StampText == {"2024-01-01T00:00:00Z", "2024-01-01T01:00:00Z"}

\* the batch of the current cycle's reply
Batch ==
    IF "feeds" \in DOMAIN resp.body.obj THEN resp.body.obj["feeds"].items ELSE <<>>

\* the entry has the key with this value
Carries(entry, key, val) == key \in DOMAIN entry /\ entry[key] = val

HasNumber(entry) ==
    \E f \in NumericSet : f \in DOMAIN entry /\ entry[f] \in NumericText

StampParses(entry) ==
    "created_at" \in DOMAIN entry /\ entry["created_at"] \in StampText

SomeStampParses == \E i \in 1..Len(Batch) : StampParses(Batch[i])

ChannelAbsent(f) == \A i \in 1..Len(Batch) : f \notin DOMAIN Batch[i]

\* process_data has been applied to the batch and has returned its table
ProcessReturned == pc = "summary"

RetainedIndices == {df.rows[i].index : i \in 1..Len(df.rows)}

(***************************************************************************)
(* Properties of process_data (specification SpecNorm).                    *)
(***************************************************************************)
ExampleBatch ==
    <<("created_at" :> "2024-01-01T00:00:00Z") @@ ("field1" :> "12.3")
      @@ ("field2" :> Null)>>

\* C2: when a channel name is absent from every entry of a batch in which a
\* created_at parses, process_data warns for each absent channel and still
\* returns a table with the other channels coerced; the batch
\* [{created_at valid, field1 "12.3", field2 null}] yields exactly one row
\* with field1 = 12.3.
C2_AbsentChannelIsNotFatal ==
    (pc # "process" /\ SomeStampParses /\ \E f \in NumericSet : ChannelAbsent(f))
    => /\ ProcessReturned
       /\ \A f \in NumericSet :
            ChannelAbsent(f) => MsgFieldMissing(f) \in view.signals
       /\ Batch = ExampleBatch =>
            /\ Len(df.rows) = 1
            /\ df.rows[1].cells["field1"] = Num(123)
            /\ df.rows[1].cells["field2"].na

\* C3: a non-empty batch in which no created_at parses (the key absent from
\* every entry, or every value unparseable) makes process_data return an empty
\* table, whatever numeric values the entries carry.
C3_NoStampEmptyTable ==
    (pc # "process" /\ Batch # <<>> /\ ~SomeStampParses)
    => (ProcessReturned /\ df = EmptyFrame)

C3_Witness ==
    /\ ProcessReturned /\ df = EmptyFrame
    /\ Len(Batch) >= 2 /\ ~SomeStampParses
    /\ \E i \in 1..Len(Batch) :
         HasNumber(Batch[i]) /\ "created_at" \in DOMAIN Batch[i]
    /\ \E i \in 1..Len(Batch) : "created_at" \notin DOMAIN Batch[i]

\* the other case of C3: the created_at key is in no entry
C3_WitnessKeyAbsent ==
    /\ ProcessReturned /\ df = EmptyFrame /\ Batch # <<>>
    /\ \A i \in 1..Len(Batch) :
         HasNumber(Batch[i]) /\ "created_at" \notin DOMAIN Batch[i]

TextValue(text) ==
    CASE text = "12.3" -> 123 [] text = "0" -> 0 [] text = "5" -> 50
      [] text = "1.5" -> 15

\* C6: malformed values never make process_data raise (it raises only when a
\* channel name is absent from the schema); in a returned table a channel
\* value that is no number is missing and not zero, a numeric text keeps its
\* value (zero stays zero and keeps its row), and an unparseable created_at
\* is a missing timestamp of its row.
C6_MalformedBecomesMissing ==
    /\ pc = "raised" => \E f \in NumericSet : ChannelAbsent(f)
    /\ ProcessReturned =>
         \A k \in 1..Len(df.rows) :
            LET row   == df.rows[k]
                entry == Batch[row.index + 1]
            IN  /\ \A f \in NumericSet :
                     IF f \in DOMAIN entry /\ entry[f] \in NumericText
                     THEN row.cells[f] = Num(TextValue(entry[f]))
                     ELSE row.cells[f].na /\ row.cells[f] # Num(0)
                /\ row.cells["created_at"].na = ~StampParses(entry)
    /\ (ProcessReturned /\ SomeStampParses) =>
         \A i \in 1..Len(Batch) :
            (\E f \in DOMAIN Batch[i] \cap NumericSet : Batch[i][f] = "0")
            => i - 1 \in RetainedIndices

C6_Witness ==
    /\ ProcessReturned
    /\ \E k \in 1..Len(df.rows) :
         LET row   == df.rows[k]
             entry == Batch[row.index + 1]
         IN  /\ Carries(entry, "field1", "0") /\ row.cells["field1"] = Num(0)
             /\ \A f \in NumericSet \ {"field1"} : row.cells[f].na
             /\ Carries(entry, "field3", "abc")
             /\ Carries(entry, "field4", "")
             /\ Carries(entry, "field2", Null)
             /\ Carries(entry, "created_at", "not-a-date")
             /\ row.cells["created_at"].na

\* C9: the returned table is an order-preserving subsequence of the batch:
\* every row comes from the entry its index names, no entry gives two rows,
\* the rows are in the order of their entries, and the last row is the last
\* retained entry of the batch.
C9_OrderPreservingSubsequence ==
    ProcessReturned =>
        /\ \A k \in 1..Len(df.rows) :
             /\ df.rows[k].index \in 0..(Len(Batch) - 1)
             /\ df.rows[k].cells["field1"].na
                  = ~(LET e == Batch[df.rows[k].index + 1]
                      IN  "field1" \in DOMAIN e /\ e["field1"] \in NumericText)
        /\ \A k, l \in 1..Len(df.rows) :
             k < l => df.rows[k].index < df.rows[l].index
        /\ Len(df.rows) > 0 =>
             \A i \in 1..Len(Batch) :
                HasNumber(Batch[i]) => i - 1 <= df.rows[Len(df.rows)].index

C9_Witness ==
    /\ ProcessReturned /\ Len(Batch) = 3 /\ Len(df.rows) = 2
    /\ df.rows[1].index = 0 /\ df.rows[2].index = 2
    /\ Batch[1] # Batch[3]

(***************************************************************************)
(* Properties of fetch_data and of the polling loop (specification Spec).  *)
(***************************************************************************)
\* the reply carries a feeds key with a non-empty sequence in a JSON object
HasFeeds ==
    /\ resp.body.json = "object"
    /\ "feeds" \in DOMAIN resp.body.obj
    /\ ~resp.body.obj["feeds"].isnull
    /\ Len(resp.body.obj["feeds"].items) > 0

FetchExceptions == {"ConnectionError", "JSONDecodeError", "AttributeError"}

\* C1: when the request fails with a transport error (no response at all),
\* fetch_data returns an empty result without raising and the cycle goes on
\* with an empty table to the empty state and the sleep.
C1_TransportErrorYieldsEmpty ==
    resp.kind = "error" =>
        /\ pc # "raised" /\ exc = "none"
        /\ data = EmptyPayload
        /\ pc \in {"charts", "sleep"} => view.summary.kind = "nodata"

C5_WitnessEmptyFeeds ==
    /\ resp.kind = "http" /\ resp.status = 200
    /\ "feeds" \in DOMAIN resp.body.obj /\ ~HasFeeds
    /\ data = EmptyPayload /\ pc = "process"

\* the outcomes of a cycle that C7 names: a fetch failure, a schema failure,
\* an empty table after filtering, a success
NamedOutcome ==
    \/ resp.kind = "error"
    \/ resp.kind = "http" /\ resp.status # 200
    \/ resp.kind = "http" /\ resp.body.json = "object"

\* C7: every cycle, whatever its outcome, ends in a sleep of exactly the
\* configured interval followed by a new fetch: no failure stops the loop,
\* and the interval is one of 5, 10, 30, 60 and the same in every cycle.
C7_EveryCycleSleepsAndPollsAgain ==
    /\ refresh_rate \in {5, 10, 30, 60}
    /\ slept \in {0, refresh_rate}
    /\ NamedOutcome => pc # "raised"

\* the rows on display: the latest reading and the charted rows
ShownRows ==
    (IF view.summary.kind = "latest" THEN {view.summary.latest_reading} ELSE {})
    \cup
    (IF view.charts.kind \in {"charts", "error"}
     THEN {view.charts.frame.rows[k] : k \in 1..Len(view.charts.frame.rows)}
     ELSE {})

\* the row is the entry of the current reply that its index names
FromCurrentReply(row) ==
    /\ resp.kind = "http" /\ resp.status = 200 /\ HasFeeds
    /\ row.index \in 0..(Len(Batch) - 1)
    /\ \A c \in DOMAIN Batch[row.index + 1] :
         row.cells[c] = Coerce(c, Batch[row.index + 1][c])
    /\ \A c \in NumericSet \ DOMAIN Batch[row.index + 1] : row.cells[c].na

C8_WitnessEmptyState ==
    /\ pc = "sleep" /\ slept = refresh_rate
    /\ resp.kind = "http" /\ resp.status = 200 /\ ~HasFeeds
    /\ view.summary.kind = "nodata" /\ view.charts.kind = "nodata"

\* C10: in both scripts, a cycle whose table has n >= 1 rows charts the last
\* min(n, 10) rows over an x-axis of exactly min(n, 10) points: the chart step
\* raises nothing and draws all six charts.
C10_SixChartsForEveryTable ==
    (pc = "sleep" /\ view.charts.kind # "nodata") =>
        /\ view.charts.kind = "charts"
        /\ view.charts.drawn = 6
        /\ Len(view.charts.real_time) = Len(view.charts.frame.rows)
        /\ LET n == Cardinality({i \in 1..Len(Batch) : HasNumber(Batch[i])})
           IN  Len(view.charts.frame.rows) = IF n < 10 THEN n ELSE 10
        /\ MsgGraphError \notin view.signals

====
